---- MODULE Spec2Model ----
(***************************************************************************)
(* A model of kernel-builder: the toolchain registry (gcc.scandir), the    *)
(* toolchain selector (gcc.select, a generator), toolchain activation      *)
(* (Toolchain.set_as_active) and the build orchestrator (kbuilder.build).  *)
(*                                                                         *)
(* Names of files and binaries are sequences of one-character strings, so  *)
(* that endswith, startswith, slicing, splitting and int() are computed.   *)
(***************************************************************************)
EXTENDS Integers, Sequences, FiniteSets, TLC

VARIABLES
    pc,             \* position of the program
    dir,            \* the toolchain directory, in os.scandir order
    target_arch,    \* scandir's target_arch argument ("None" when not given)
    entries,        \* scandir: the entries sorted by name
    scanIdx,        \* scandir: number of entries the loop has finished
    toolchains,     \* scandir: the list built so far, then its result
    error,          \* the exception that ended the run ("none" while running)
    genState,       \* state of the generator that select() returns
    line,           \* the line read by input() (<<>> before it is read)
    prompts,        \* number of calls of input()
    chosen_numbers, \* select: the parsed numbers
    genIdx,         \* select: number of chosen numbers consumed
    yielded,        \* the toolchains the generator has yielded, in order
    kernelClass,    \* class whose build_kbuild_image the kernel argument has
    ota_package_dir,\* whether build got an ota_package_dir
    toolchain,      \* build: the loop variable (<<>> before the first one)
    iteration,      \* build: number of loop iterations entered
    environ,        \* the process environment: CROSS_COMPILE and SUBARCH
    kernel,         \* the Kernel object: version and extra_version
    logs,           \* the log directory: the files and the iteration that wrote each
    trace,          \* the collaborator invocations and file writes, in order
    tree,           \* find_root: the names in each directory from / down to the start
    path,           \* find_root: the directory walk_to_root is called on
    visited,        \* find_root: the directories listed so far, in order
    walk_result,    \* find_root: its result, once it has returned
    kstate,         \* the Kernel object: "new", "init", "live" or "failed"
    version_cached, \* whether the object holds a cached version
    cwd,            \* the process working directory
    prev_dir,       \* Kernel._prev_dir
    make_status,    \* the outcome of the running 'make kernelrelease'
    release_calls,  \* number of 'make kernelrelease' invocations
    cwd_log,        \* the working directory around each version computation
    reads           \* the reads of version and release_version, in order

vars == <<pc, dir, target_arch, entries, scanIdx, toolchains, error, genState,
          line, prompts, chosen_numbers, genIdx, yielded, kernelClass,
          ota_package_dir, toolchain, iteration, environ, kernel, logs,
          trace, tree, path, visited, walk_result, kstate, version_cached, cwd,
          prev_dir,
          make_status, release_calls, cwd_log, reads>>

scanVars == <<dir, target_arch, entries, scanIdx, toolchains>>
genVars == <<genState, line, prompts, chosen_numbers, genIdx, yielded>>
buildVars == <<kernelClass, ota_package_dir, toolchain, iteration, environ,
               kernel, logs, trace>>
rootVars == <<tree, path, visited, walk_result>>
objectVars == <<kstate, version_cached, cwd, prev_dir, make_status, release_calls, cwd_log,
                reads>>
otherVars == <<rootVars, objectVars>>

(***************************************************************************)
(* Bounds                                                                  *)
(***************************************************************************)
\* largest number of entries of a toolchain directory
MaxEntries == 3
\* largest number of characters of the operator's line
MaxLine == 3
\* largest depth of the path find_root starts from
MaxDepth == 3
\* largest number of reads of version and release_version after construction
MaxReads == 3

(***************************************************************************)
(* Strings                                                                 *)
(***************************************************************************)
\* Code points of the characters that occur in directory-entry names.
Ord(c) == CASE c = "a" -> 97 [] c = "b" -> 98 [] c = "c" -> 99 [] OTHER -> 0

\* str.__lt__: lexicographic order on code points.
RECURSIVE StrLess(_, _)
StrLess(s, t) ==
    IF t = <<>> THEN FALSE
    ELSE IF s = <<>> THEN TRUE
    ELSE IF Ord(Head(s)) # Ord(Head(t)) THEN Ord(Head(s)) < Ord(Head(t))
    ELSE StrLess(Tail(s), Tail(t))

\* str.endswith
EndsWith(s, suf) ==
    /\ Len(s) >= Len(suf)
    /\ SubSeq(s, Len(s) - Len(suf) + 1, Len(s)) = suf

\* str.startswith
StartsWith(s, pre) ==
    /\ Len(s) >= Len(pre)
    /\ SubSeq(s, 1, Len(pre)) = pre

\* s[:-3]
DropLast3(s) == SubSeq(s, 1, Len(s) - 3)

\* Optional values: None is the empty tuple, a value v is <<v>>.
None == <<>>
Some(v) == <<v>>

(***************************************************************************)
(* The file system under the toolchain directory                           *)
(***************************************************************************)
gcc == <<"g", "c", "c">>
aarch64 == <<"a", "a", "r", "c", "h", "6", "4">>
arm_eabi == <<"a", "r", "m", "-", "e", "a", "b", "i">>

\* Names of the files a toolchain's bin directory may hold.
aarch64_gcc == aarch64 \o <<"-">> \o gcc
aarch64_ld == aarch64 \o <<"-", "l", "d">>
arm_eabi_gcc == arm_eabi \o <<"-">> \o gcc
arm_eabi_gcc_ar == arm_eabi \o <<"-">> \o gcc \o <<"-", "a", "r">>
x86_gcc == <<"x", "8", "6", "-">> \o gcc

\* Listings of a bin directory, in os.scandir order.
BinListings ==
    { <<>>,
      <<aarch64_gcc>>,
      <<arm_eabi_gcc_ar, arm_eabi_gcc>>,
      <<x86_gcc>>,
      <<aarch64_ld>>,
      <<gcc>>,
      <<arm_eabi_gcc, aarch64_gcc>> }

\* What an entry of the toolchain directory is: a plain file, or a directory
\* whose bin is missing, is a plain file, cannot be listed, or is a directory.
EntryKinds ==
    { [isdir |-> FALSE, bin |-> "missing", listing |-> <<>>],
      [isdir |-> TRUE, bin |-> "missing", listing |-> <<>>],
      [isdir |-> TRUE, bin |-> "file", listing |-> <<>>],
      [isdir |-> TRUE, bin |-> "denied", listing |-> <<>>] }
    \cup { [isdir |-> TRUE, bin |-> "dir", listing |-> l] : l \in BinListings }

EntryNames == { <<"a">>, <<"b">>, <<"a", "b">> }

Entries ==
    { [name |-> n, isdir |-> k.isdir, bin |-> k.bin, listing |-> k.listing] :
        n \in EntryNames, k \in EntryKinds }

NoRepeat(s) == \A i, j \in DOMAIN s : s[i].name = s[j].name => i = j

\* The directories: entries with distinct names, in any listing order.
Dirs ==
    UNION { { s \in [1..n -> Entries] : NoRepeat(s) } : n \in 0..MaxEntries }

(***************************************************************************)
(* gcc.Toolchain                                                           *)
(***************************************************************************)
\* Toolchain.compiler_prefixes, in the order the dict is iterated.
compiler_prefixes ==
    << [prefix |-> aarch64, arch |-> "arm64"],
       [prefix |-> arm_eabi, arch |-> "arm"] >>

Archs == {"arm64", "arm"}

\* find_binaries: os.scandir(root/bin); every error is swallowed and None
\* is returned.
find_binaries(e) ==
    IF e.isdir /\ e.bin = "dir" THEN Some(e.listing) ELSE None

is_gcc_binary(binary_name) == EndsWith(binary_name, gcc)

\* The loop of find_compiler_prefix over a listing: the path of the first
\* gcc binary without its last three characters, None when the loop ends.
\* A path below the toolchain directory is [root, bin entry name].
RECURSIVE first_gcc_prefix(_, _)
first_gcc_prefix(root, listing) ==
    IF listing = <<>> THEN None
    ELSE IF is_gcc_binary(Head(listing))
         THEN Some([root |-> root, name |-> DropLast3(Head(listing))])
         ELSE first_gcc_prefix(root, Tail(listing))

\* find_compiler_prefix: iterating over None raises TypeError.
find_compiler_prefix(e) ==
    LET binaries == find_binaries(e)
    IN  IF binaries = None
        THEN [raised |-> "TypeError", value |-> None]
        ELSE [raised |-> "none",
              value |-> first_gcc_prefix(e.name, binaries[1])]

\* unipath's Path(x): TypeError unless x is a str, list, int or Path.
PathRaises(x) == x = None

\* _find_target_arch on the name of the compiler prefix.
RECURSIVE find_arch_from(_, _)
find_arch_from(prefix_name, mapping) ==
    IF mapping = <<>> THEN "None"
    ELSE IF StartsWith(prefix_name, Head(mapping).prefix)
         THEN Head(mapping).arch
         ELSE find_arch_from(prefix_name, Tail(mapping))

find_target_arch(prefix) == find_arch_from(prefix.name, compiler_prefixes)

\* Toolchain.__init__: the exception it raises ("none" when it returns) and
\* the object it builds.
ToolchainInit(e) ==
    LET found == find_compiler_prefix(e)
    IN  IF found.raised # "none"
        THEN [raised |-> found.raised, tc |-> None]
        ELSE IF PathRaises(found.value)
        THEN [raised |-> "TypeError", tc |-> None]
        ELSE [raised |-> "none",
              tc |-> Some([name |-> e.name,
                           compiler_prefix |-> found.value[1],
                           target_arch |-> find_target_arch(found.value[1])])]

\* Toolchain.__nonzero__: root is a directory and root/bin is a directory.
nonzero(e) == e.isdir /\ e.bin \in {"dir", "denied"}

\* bool(toolchain) under Python 3, which kbuilder.py requires: the class
\* defines __nonzero__ but neither __bool__ nor __len__, so every instance
\* is true.
Truthy(e) == TRUE

(***************************************************************************)
(* gcc.scandir                                                             *)
(***************************************************************************)
valid_arch(target, tc) == target = "None" \/ tc.target_arch = target

RECURSIVE Insert(_, _)
Insert(e, s) ==
    IF s = <<>> THEN <<e>>
    ELSE IF StrLess(e.name, Head(s).name) THEN <<e>> \o s
    ELSE <<Head(s)>> \o Insert(e, Tail(s))

\* sorted(os.scandir(toolchain_dir), key=lambda x: x.name)
RECURSIVE sorted(_)
sorted(s) ==
    IF s = <<>> THEN <<>> ELSE Insert(s[Len(s)], sorted(SubSeq(s, 1, Len(s) - 1)))

ScanSort ==
    /\ pc = "scandir"
    /\ entries' = sorted(dir)
    /\ toolchains' = <<>>
    /\ scanIdx' = 0
    /\ pc' = "scan_loop"
    /\ UNCHANGED <<otherVars, dir, target_arch, error, genVars, buildVars>>

\* One iteration of the loop over the sorted entries.
ScanEntry ==
    /\ pc = "scan_loop"
    /\ scanIdx < Len(entries)
    /\ LET e == entries[scanIdx + 1]
           made == ToolchainInit(e)
       IN  IF made.raised # "none"
           THEN /\ error' = made.raised
                /\ pc' = "aborted"
                /\ UNCHANGED <<toolchains, scanIdx>>
           ELSE /\ toolchains' =
                       IF Truthy(e) /\ valid_arch(target_arch, made.tc[1])
                       THEN Append(toolchains, made.tc[1])
                       ELSE toolchains
                /\ scanIdx' = scanIdx + 1
                /\ UNCHANGED <<pc, error>>
    /\ UNCHANGED <<otherVars, dir, target_arch, entries, genVars, buildVars>>

ScanReturn ==
    /\ pc = "scan_loop"
    /\ scanIdx = Len(entries)
    /\ pc' = "select"
    /\ UNCHANGED <<otherVars, scanVars, error, genVars, buildVars>>

(***************************************************************************)
(* gcc.select: a generator function.  Calling it runs none of its body;    *)
(* the body runs when the for loop of build asks for the next toolchain.   *)
(***************************************************************************)
Chars == {"0", "1", "2", "3", "-", " "}

\* The lines the operator may type.
Lines == UNION { [1..n -> Chars] : n \in 0..MaxLine }

IsDigit(c) == c \in {"0", "1", "2", "3"}
DigitValue(c) == CASE c = "0" -> 0 [] c = "1" -> 1 [] c = "2" -> 2 [] c = "3" -> 3

\* str.split(): the maximal runs of characters that are not whitespace.
RECURSIVE SplitFrom(_, _)
SplitFrom(s, word) ==
    IF s = <<>> THEN (IF word = <<>> THEN <<>> ELSE <<word>>)
    ELSE IF Head(s) = " "
         THEN (IF word = <<>> THEN <<>> ELSE <<word>>) \o SplitFrom(Tail(s), <<>>)
         ELSE SplitFrom(Tail(s), Append(word, Head(s)))

split(s) == SplitFrom(s, <<>>)

RECURSIVE DigitsValue(_)
DigitsValue(s) ==
    IF s = <<>> THEN 0
    ELSE 10 * DigitsValue(SubSeq(s, 1, Len(s) - 1)) + DigitValue(s[Len(s)])

AllDigits(s) == s # <<>> /\ \A i \in DOMAIN s : IsDigit(s[i])

\* int(x) on a word: an optional sign and decimal digits, else ValueError.
IntOk(w) == IF Head(w) = "-" THEN AllDigits(Tail(w)) ELSE AllDigits(w)
int(w) == IF Head(w) = "-" THEN 0 - DigitsValue(Tail(w)) ELSE DigitsValue(w)

\* list.__getitem__(i): the 1-based position of the item, 0 for IndexError.
\* A negative index counts from the end of the list.
PyIndex(i, length) ==
    LET j == IF i < 0 THEN i + length ELSE i
    IN  IF 0 <= j /\ j < length THEN j + 1 ELSE 0

\* chosen_index with the entered number used as the index itself.
chosen_index_unshifted(number) == number

\* The index select uses for an entered number: toolchains[number - 1].
chosen_index(number) == number - 1

\* The generator runs from chosen number k (0-based) to its next yield,
\* its end or its exception.  The for loop of build receives the outcome:
\* a toolchain starts an iteration, the end of the generator ends the loop,
\* an exception leaves build.
GenAdvance(numbers, k) ==
    IF k = Len(numbers)
    THEN /\ genState' = "finished"
         /\ pc' = "done"
         /\ UNCHANGED <<genIdx, yielded, toolchain, iteration, error>>
    ELSE LET at == PyIndex(chosen_index(numbers[k + 1]), Len(toolchains))
         IN  IF at = 0
             THEN /\ genState' = "raised"
                  /\ error' = "IndexError"
                  /\ pc' = "aborted"
                  /\ UNCHANGED <<genIdx, yielded, toolchain, iteration>>
             ELSE /\ genState' = "suspended"
                  /\ genIdx' = k + 1
                  /\ yielded' = Append(yielded, toolchains[at])
                  /\ toolchain' = Some(toolchains[at])
                  /\ iteration' = iteration + 1
                  /\ pc' = "enter"
                  /\ UNCHANGED error

\* What the first resumption does with a list of at most one toolchain:
\* 'return toolchains' in a generator ends it without yielding anything.
ShortList ==
    /\ Len(toolchains) <= 1
    /\ genState' = "finished"
    /\ pc' = "done"
    /\ UNCHANGED <<line, prompts, chosen_numbers, genIdx, yielded, toolchain,
                   iteration, error>>

\* The first resumption with two or more toolchains: the menu, input(), the
\* parse of every word, then the first yield.
Prompt ==
    /\ Len(toolchains) > 1
    /\ \E l \in Lines :
         /\ line' = l
         /\ prompts' = prompts + 1
         /\ LET words == split(l)
            IN  IF \E i \in DOMAIN words : ~IntOk(words[i])
                THEN /\ genState' = "raised"
                     /\ error' = "ValueError"
                     /\ pc' = "aborted"
                     /\ UNCHANGED <<chosen_numbers, genIdx, yielded, toolchain,
                                    iteration>>
                ELSE /\ chosen_numbers' = [i \in DOMAIN words |-> int(words[i])]
                     /\ GenAdvance(chosen_numbers', 0)

\* for toolchain in toolchains: the first request to the generator.
SelectFirst ==
    /\ pc = "for"
    /\ genState = "created"
    /\ (ShortList \/ Prompt)
    /\ UNCHANGED <<otherVars, scanVars, kernelClass, ota_package_dir, environ, kernel,
                   logs, trace>>

\* for toolchain in toolchains: a later request to the generator.
SelectNext ==
    /\ pc = "for"
    /\ genState = "suspended"
    /\ GenAdvance(chosen_numbers, genIdx)
    /\ UNCHANGED <<otherVars, scanVars, line, prompts, chosen_numbers, kernelClass,
                   ota_package_dir, environ, kernel, logs, trace>>

(***************************************************************************)
(* kbuilder.main and kbuilder.build                                        *)
(***************************************************************************)
\* The outcomes of an external command: exit status zero or not.  A
\* non-zero exit status raises in the caller.
MakeResults == {"ok", "fail"}

\* Whether the kernel's build_kbuild_image takes the call
\* build_kbuild_image(toolchain, log_dir=log_dir).  Kernel's takes log_dir
\* alone, so the call gives log_dir twice: TypeError.
AcceptsToolchain(class) == class = "AndroidKernel"

\* An entry of the trace: the operation, the loop iteration it belongs to
\* (0 before the loop), the loop's toolchain, the environment the operation
\* runs in, and whether it succeeded.
Event(op, ok) ==
    [op |-> op, it |-> iteration, tc |-> toolchain, env |-> environ, ok |-> ok]

\* main: toolchains = gcc.select(toolchains) makes the generator; build is
\* then called with a kernel and, or not, an ota_package_dir.
CallBuild ==
    /\ pc = "select"
    /\ genState' = "created"
    /\ kernelClass' \in {"Kernel", "AndroidKernel"}
    /\ ota_package_dir' \in BOOLEAN
    /\ pc' = "defconfig"
    /\ UNCHANGED <<otherVars, scanVars, error, line, prompts, chosen_numbers, genIdx,
                   yielded, toolchain, iteration, environ, kernel, logs, trace>>

\* mk.make(defconfig)
MakeDefconfig ==
    /\ pc = "defconfig"
    /\ \E r \in MakeResults :
         /\ trace' = Append(trace, Event("defconfig", r = "ok"))
         /\ IF r = "ok"
            THEN pc' = "for" /\ UNCHANGED error
            ELSE pc' = "aborted" /\ error' = "CalledProcessError"
    /\ UNCHANGED <<otherVars, scanVars, genVars, kernelClass, ota_package_dir, toolchain,
                   iteration, environ, kernel, logs>>

\* set_as_active without the second putenv.
set_as_active_prefix_only(env, tc) ==
    [env EXCEPT !.CROSS_COMPILE = tc.compiler_prefix]

\* Toolchain.set_as_active: the environment after the two os.putenv calls,
\* of which the second raises AttributeError when target_arch is None.
set_as_active(env, tc) ==
    IF tc.target_arch = "None"
    THEN [env EXCEPT !.CROSS_COMPILE = tc.compiler_prefix]
    ELSE [env EXCEPT !.CROSS_COMPILE = tc.compiler_prefix,
                     !.SUBARCH = tc.target_arch]

\* with toolchain: Toolchain.__enter__
Activate ==
    /\ pc = "enter"
    /\ environ' = set_as_active(environ, toolchain[1])
    /\ trace' = Append(trace, [op |-> "activate", it |-> iteration,
                                tc |-> toolchain, env |-> environ',
                                ok |-> toolchain[1].target_arch # "None"])
    /\ IF toolchain[1].target_arch = "None"
       THEN pc' = "aborted" /\ error' = "AttributeError"
       ELSE pc' = "arch_clean" /\ UNCHANGED error
    /\ UNCHANGED <<otherVars, scanVars, genVars, kernelClass, ota_package_dir, toolchain,
                   iteration, kernel, logs>>

\* __exit__ returning True.
Toolchain_exit_suppress == TRUE

\* Toolchain.__exit__ returns False: an exception raised inside the with
\* block is not suppressed.
Toolchain_exit == FALSE

\* An exception raised inside the with block.
RaiseInScope(exc) ==
    IF Toolchain_exit
    THEN pc' = "for" /\ UNCHANGED error
    ELSE pc' = "aborted" /\ error' = exc

\* build without the call of kernel.arch_clean().
ArchClean_skipped ==
    /\ pc = "arch_clean"
    /\ pc' = "build_call"
    /\ UNCHANGED <<otherVars, scanVars, genVars, error, buildVars>>

\* kernel.arch_clean(): make('archclean')
ArchClean ==
    /\ pc = "arch_clean"
    /\ \E r \in MakeResults :
         /\ trace' = Append(trace, Event("archclean", r = "ok"))
         /\ IF r = "ok"
            THEN pc' = "build_call" /\ UNCHANGED error
            ELSE RaiseInScope("CalledProcessError")
    /\ UNCHANGED <<otherVars, scanVars, genVars, kernelClass, ota_package_dir, toolchain,
                   iteration, environ, kernel, logs>>

\* kernel.build_kbuild_image(toolchain, log_dir=log_dir): the call itself.
BuildCall ==
    /\ pc = "build_call"
    /\ IF AcceptsToolchain(kernelClass)
       THEN pc' = "make_all" /\ UNCHANGED error
       ELSE RaiseInScope("TypeError")
    /\ UNCHANGED <<otherVars, scanVars, genVars, buildVars>>

\* release_version without the separator.
release_version_unseparated(k) ==
    IF k.extra_version # None /\ k.extra_version[1] # <<>>
    THEN k.version \o k.extra_version[1]
    ELSE k.version

\* Kernel.release_version
release_version(k) ==
    IF k.extra_version # None /\ k.extra_version[1] # <<>>
    THEN k.version \o <<"-">> \o k.extra_version[1]
    ELSE k.version

\* The name of the build log: release_version + '-log.txt'.
build_log(k) ==
    release_version(k) \o <<"-", "l", "o", "g", ".", "t", "x", "t">>

\* build_kbuild_image: output = make_output('all')
MakeAll ==
    /\ pc = "make_all"
    /\ \E r \in MakeResults :
         /\ trace' = Append(trace, Event("all", r = "ok"))
         /\ IF r = "ok"
            THEN pc' = "write_log" /\ UNCHANGED error
            ELSE RaiseInScope("CalledProcessError")
    /\ UNCHANGED <<otherVars, scanVars, genVars, kernelClass, ota_package_dir, toolchain,
                   iteration, environ, kernel, logs>>

\* build_kbuild_image returning without writing the log.
WriteLog_skipped ==
    /\ pc = "write_log"
    /\ pc' = IF ota_package_dir THEN "copy" ELSE "exit"
    /\ UNCHANGED <<otherVars, scanVars, genVars, error, buildVars>>

\* build_kbuild_image: build_log.write_file(output), then the return to
\* build and its test of ota_package_dir.
WriteLog ==
    /\ pc = "write_log"
    /\ logs' = { f \in logs : f.name # build_log(kernel) }
                 \cup { [name |-> build_log(kernel), by |-> iteration] }
    /\ trace' = Append(trace, Event("log", TRUE))
    /\ pc' = IF ota_package_dir THEN "copy" ELSE "exit"
    /\ UNCHANGED <<otherVars, scanVars, genVars, error, kernelClass, ota_package_dir,
                   toolchain, iteration, environ, kernel>>

\* shutil.copy(kbuild_image, ota_package_dir + '/boot'), which raises when
\* the image is not there.
CopyImage ==
    /\ pc = "copy"
    /\ \E r \in MakeResults :
         /\ trace' = Append(trace, Event("copy", r = "ok"))
         /\ IF r = "ok"
            THEN pc' = "package" /\ UNCHANGED error
            ELSE RaiseInScope("FileNotFoundError")
    /\ UNCHANGED <<otherVars, scanVars, genVars, kernelClass, ota_package_dir, toolchain,
                   iteration, environ, kernel, logs>>

\* The extra_version argument with the name of the compiler prefix.
ota_extra_version_prefix(tc) == tc.compiler_prefix.name

\* The extra_version argument of make_ota_package: toolchain.name
ota_extra_version(tc) == tc.name

\* kernel.make_ota_package(..., extra_version=toolchain.name)
MakeOtaPackage ==
    /\ pc = "package"
    /\ \E r \in MakeResults :
         /\ trace' = Append(trace,
                [op |-> "package", it |-> iteration, tc |-> toolchain,
                 env |-> environ, ok |-> r = "ok",
                 extra_version |-> ota_extra_version(toolchain[1])])
         /\ IF r = "ok"
            THEN pc' = "exit" /\ UNCHANGED error
            ELSE RaiseInScope("CalledProcessError")
    /\ UNCHANGED <<otherVars, scanVars, genVars, kernelClass, ota_package_dir, toolchain,
                   iteration, environ, kernel, logs>>

\* The end of the with block with make(defconfig) inside the loop.
ExitScope_reconfigure ==
    /\ pc = "exit"
    /\ pc' = "defconfig"
    /\ UNCHANGED <<otherVars, scanVars, genVars, error, buildVars>>

\* The end of the with block with a return inside the loop.
ExitScope_return ==
    /\ pc = "exit"
    /\ pc' = "done"
    /\ UNCHANGED <<otherVars, scanVars, genVars, error, buildVars>>

\* The end of the with block with the environment put back as it was
\* before the run.
ExitScope_restore ==
    /\ pc = "exit"
    /\ pc' = "for"
    /\ environ' = [CROSS_COMPILE |-> "unset", SUBARCH |-> "unset"]
    /\ UNCHANGED <<otherVars, scanVars, genVars, error, kernelClass, ota_package_dir,
                   toolchain, iteration, kernel, logs, trace>>

\* The end of the with block: Toolchain.__exit__ without an exception.
ExitScope ==
    /\ pc = "exit"
    /\ pc' = "for"
    /\ UNCHANGED <<otherVars, scanVars, genVars, error, buildVars>>

(***************************************************************************)
(* Kernel.find_root                                                        *)
(*                                                                         *)
(* A path is the sequence of its components, <<>> being '/'.  The          *)
(* component at depth i is named i.  tree[d + 1] is the set of names in    *)
(* the directory at depth d of the starting path.                          *)
(***************************************************************************)
KERNEL_DIRS ==
    {"arch", "crypto", "Documentation", "drivers", "include", "scripts", "tools"}

\* What a directory on the way may hold.
DirContents ==
    { KERNEL_DIRS,
      KERNEL_DIRS \cup {"Makefile"},
      KERNEL_DIRS \ {"tools"},
      {"arch"},
      {} }

system_root == <<>>

\* The starting path of a tree.
StartOf(t) == [i \in 1..(Len(t) - 1) |-> i]

\* Path.parent; the parent of '/' is '/'.
parent(p) == IF p = <<>> THEN <<>> ELSE SubSeq(p, 1, Len(p) - 1)

\* is_kernel_root: every name of KERNEL_DIRS is among the names listed.
is_kernel_root(p) ==
    LET files_in_dir == tree[Len(p) + 1]
    IN  \A kernel_dir \in KERNEL_DIRS : kernel_dir \in files_in_dir

\* walk_to_root with the test for '/' made before the directory is listed.
walk_to_root_root_first(p) ==
    IF p = system_root THEN [returns |-> TRUE, value |-> None]
    ELSE IF is_kernel_root(p) THEN [returns |-> TRUE, value |-> Some(p)]
    ELSE [returns |-> FALSE, value |-> Some(parent(p))]

\* One call of walk_to_root: it returns a value, or calls itself on value.
walk_to_root(p) ==
    IF is_kernel_root(p) THEN [returns |-> TRUE, value |-> Some(p)]
    ELSE IF p = system_root THEN [returns |-> TRUE, value |-> None]
    ELSE [returns |-> FALSE, value |-> Some(parent(p))]

WalkStep ==
    /\ pc = "walk"
    /\ visited' = Append(visited, path)
    /\ LET step == walk_to_root(path)
       IN  IF step.returns
           THEN /\ walk_result' = step.value
                /\ pc' = "returned"
                /\ UNCHANGED path
           ELSE /\ path' = step.value[1]
                /\ UNCHANGED <<pc, walk_result>>
    /\ UNCHANGED <<tree, objectVars, scanVars, error, genVars, buildVars>>

(***************************************************************************)
(* kernel.Kernel: construction, version, extra_version, release_version    *)
(***************************************************************************)
\* Whether the class of the object has a method _find_kernel_version, which
\* the version property calls.  Kernel names its method _find_kernel_verion.
DefinesFindKernelVersion(class) == class = "AndroidKernel"

\* The root directory of the kernel, and where the process may be.
KernelRoot == "root"
WorkingDirs == {"home", "root"}

banner == <<"r", "e", "l", "e", "a", "s", "e", " ">>

\* What 'make kernelrelease' may print.
MakeOutputs ==
    { banner \o <<"4", ".", "9", "\n">>,
      <<"w", "\n">> \o banner \o <<"4", ".", "9", ".", "1", "\n", "\n">>,
      <<"4", ".", "9", "\n">> }

NoMake == [status |-> "none", output |-> <<>>]

IsSpace(c) == c \in {" ", "\n"}

\* str.rstrip()
RECURSIVE rstrip(_)
rstrip(s) ==
    IF s # <<>> /\ IsSpace(s[Len(s)]) THEN rstrip(SubSeq(s, 1, Len(s) - 1)) ELSE s

\* output.split('\n')[-1]: what follows the last newline.
RECURSIVE last_line(_)
last_line(s) ==
    IF s = <<>> THEN <<>>
    ELSE IF s[Len(s)] = "\n" THEN <<>>
    ELSE Append(last_line(SubSeq(s, 1, Len(s) - 1)), s[Len(s)])

\* kernelrelease[8:]
from8(s) == SubSeq(s, 9, Len(s))

\* The value _find_kernel_verion returns for an output of make.
parse_kernelrelease(output) == from8(last_line(rstrip(output)))

\* The values written to extra_version.
ExtraVersions == { None, Some(<<>>), Some(<<"a">>), Some(<<"b">>) }

\* Kernel.__init__ up to its read of self.version.
KernelInit ==
    /\ pc = "construct"
    /\ kstate' = "init"
    /\ pc' = "version"
    /\ UNCHANGED <<rootVars, version_cached, cwd, prev_dir, make_status,
                   release_calls, cwd_log, reads, scanVars, error, genVars,
                   buildVars>>

\* A read of an attribute that ends with an exception.
Raised(attr, exc) ==
    [attr |-> attr, raised |-> exc, value |-> <<>>, extra |-> kernel.extra_version]

\* A read of an attribute that returns a value.
Returned(attr, value) ==
    [attr |-> attr, raised |-> "none", value |-> value,
     extra |-> kernel.extra_version]

\* The version property without a cached value: the call of
\* self._find_kernel_version().
VersionCompute ==
    /\ pc = "version"
    /\ ~version_cached
    /\ IF DefinesFindKernelVersion(kernelClass)
       THEN /\ pc' = "enter_kernel"
            /\ UNCHANGED <<kstate, error, reads>>
       ELSE /\ reads' = Append(reads, Raised("version", "AttributeError"))
            /\ error' = "AttributeError"
            /\ kstate' = "failed"
            /\ pc' = "aborted"
    /\ UNCHANGED <<rootVars, version_cached, cwd, prev_dir, make_status,
                   release_calls, cwd_log, scanVars, genVars, buildVars>>

\* with self: Kernel.__enter__
KernelEnter ==
    /\ pc = "enter_kernel"
    /\ prev_dir' = cwd
    /\ cwd' = KernelRoot
    /\ cwd_log' = Append(cwd_log, [before |-> cwd, at_make |-> "none",
                                   after |-> "none", ok |-> FALSE])
    /\ pc' = "kernelrelease"
    /\ UNCHANGED <<rootVars, kstate, version_cached, make_status,
                   release_calls, reads, scanVars, error, genVars, buildVars>>

\* make_output('kernelrelease')
MakeKernelRelease ==
    /\ pc = "kernelrelease"
    /\ release_calls' = release_calls + 1
    /\ \E r \in MakeResults :
         /\ \E out \in MakeOutputs :
              make_status' = [status |-> r,
                              output |-> IF r = "ok" THEN out ELSE <<>>]
         /\ cwd_log' = [cwd_log EXCEPT ![Len(cwd_log)].at_make = cwd,
                                       ![Len(cwd_log)].ok = (r = "ok")]
    /\ pc' = "exit_kernel"
    /\ UNCHANGED <<rootVars, kstate, version_cached, cwd, prev_dir, reads,
                   scanVars, error, genVars, buildVars>>

\* Kernel.__exit__ leaving the working directory where it is.
exit_dir_kept(previous, current) == current

\* Kernel.__exit__: self._prev_dir.chdir()
exit_dir(previous, current) == previous

\* Kernel.__exit__, then the return of the version to the property, which
\* caches it, and to __init__, which goes on to its end; or the exception
\* of make leaving __init__.
KernelExit ==
    /\ pc = "exit_kernel"
    /\ cwd' = exit_dir(prev_dir, cwd)
    /\ cwd_log' = [cwd_log EXCEPT ![Len(cwd_log)].after = cwd']
    /\ IF make_status.status = "ok"
       THEN /\ kernel' = [version |-> parse_kernelrelease(make_status.output),
                          extra_version |-> None]
            /\ version_cached' = TRUE
            /\ reads' = Append(reads, [Returned("version", kernel'.version)
                                         EXCEPT !.extra = None])
            /\ kstate' = "live"
            /\ pc' = "idle"
            /\ UNCHANGED error
       ELSE /\ reads' = Append(reads, Raised("version", "CalledProcessError"))
            /\ error' = "CalledProcessError"
            /\ kstate' = "failed"
            /\ pc' = "aborted"
            /\ UNCHANGED <<kernel, version_cached>>
    /\ UNCHANGED <<rootVars, prev_dir, make_status, release_calls, scanVars,
                   genVars, kernelClass, ota_package_dir, toolchain,
                   iteration, environ, logs, trace>>

\* A read of kernel.version on the constructed object.
ReadVersion ==
    /\ pc = "idle"
    /\ kstate = "live"
    /\ Len(reads) <= MaxReads
    /\ IF version_cached
       THEN reads' = Append(reads, Returned("version", kernel.version))
            /\ UNCHANGED pc
       ELSE pc' = "version" /\ UNCHANGED reads
    /\ UNCHANGED <<rootVars, kstate, version_cached, cwd, prev_dir,
                   make_status, release_calls, cwd_log, scanVars, error,
                   genVars, buildVars>>

\* A read of kernel.release_version on the constructed object.
ReadReleaseVersion ==
    /\ pc = "idle"
    /\ kstate = "live"
    /\ version_cached
    /\ Len(reads) <= MaxReads
    /\ reads' = Append(reads, Returned("release_version", release_version(kernel)))
    /\ UNCHANGED <<rootVars, kstate, version_cached, cwd, prev_dir,
                   make_status, release_calls, cwd_log, scanVars, error,
                   genVars, buildVars, pc>>

\* kernel.extra_version = version
SetExtraVersion ==
    /\ pc = "idle"
    /\ kstate = "live"
    /\ \E v \in ExtraVersions : kernel' = [kernel EXCEPT !.extra_version = v]
    /\ UNCHANGED <<otherVars, scanVars, error, genVars, kernelClass,
                   ota_package_dir, toolchain, iteration, environ, logs,
                   trace, pc>>

(***************************************************************************)
(* Initial states                                                          *)
(***************************************************************************)
Unset == "unset"

\* What 'make kernelrelease' reports for the tree.
KernelVersion == <<"4", ".", "9">>

InitRootIdle ==
    /\ tree = <<>>
    /\ path = <<>>
    /\ visited = <<>>
    /\ walk_result = None

InitObjectIdle ==
    /\ kstate = "live"
    /\ version_cached = TRUE
    /\ cwd = "home"
    /\ prev_dir = "home"
    /\ make_status = NoMake
    /\ release_calls = 0
    /\ cwd_log = <<>>
    /\ reads = <<>>

InitMainIdle ==
    /\ entries = <<>>
    /\ scanIdx = 0
    /\ toolchains = <<>>
    /\ error = "none"
    /\ genState = "none"
    /\ line = <<>>
    /\ prompts = 0
    /\ chosen_numbers = <<>>
    /\ genIdx = 0
    /\ yielded = <<>>
    /\ kernelClass = "none"
    /\ ota_package_dir = FALSE
    /\ toolchain = None
    /\ iteration = 0
    /\ environ = [CROSS_COMPILE |-> Unset, SUBARCH |-> Unset]
    /\ kernel = [version |-> KernelVersion, extra_version |-> None]
    /\ logs = {}
    /\ trace = <<>>

InitRest ==
    /\ pc = "scandir"
    /\ InitRootIdle
    /\ InitObjectIdle
    /\ InitMainIdle

\* scandir on any directory, with any target architecture.
InitScan ==
    /\ dir \in Dirs
    /\ target_arch \in Archs \cup {"None"}
    /\ InitRest

NextScan == ScanSort \/ ScanEntry \/ ScanReturn

SpecScan == InitScan /\ [][NextScan]_vars

\* find_root from any starting path of depth at most MaxDepth.
InitRoot ==
    /\ pc = "walk"
    /\ \E n \in 0..MaxDepth : tree \in [1..(n + 1) -> DirContents]
    /\ path = StartOf(tree)
    /\ visited = <<>>
    /\ walk_result = None
    /\ dir = <<>>
    /\ target_arch = "None"
    /\ InitObjectIdle
    /\ InitMainIdle

NextRoot == WalkStep

SpecRoot == InitRoot /\ [][NextRoot]_vars

\* The construction of a kernel object of either class, from either
\* working directory, and its use afterwards.
InitKernel ==
    /\ pc = "construct"
    /\ kstate = "new"
    /\ version_cached = FALSE
    /\ cwd \in WorkingDirs
    /\ prev_dir = "none"
    /\ make_status = NoMake
    /\ release_calls = 0
    /\ cwd_log = <<>>
    /\ reads = <<>>
    /\ dir = <<>>
    /\ target_arch = "None"
    /\ error = "none"
    /\ kernelClass \in {"Kernel", "AndroidKernel"}
    /\ kernel = [version |-> <<>>, extra_version |-> None]
    /\ InitRootIdle
    /\ entries = <<>> /\ scanIdx = 0 /\ toolchains = <<>>
    /\ genState = "none" /\ line = <<>> /\ prompts = 0
    /\ chosen_numbers = <<>> /\ genIdx = 0 /\ yielded = <<>>
    /\ ota_package_dir = FALSE /\ toolchain = None /\ iteration = 0
    /\ environ = [CROSS_COMPILE |-> Unset, SUBARCH |-> Unset]
    /\ logs = {} /\ trace = <<>>

NextKernel ==
    \/ KernelInit \/ VersionCompute \/ KernelEnter \/ MakeKernelRelease
    \/ KernelExit \/ ReadVersion \/ ReadReleaseVersion \/ SetExtraVersion

SpecKernel == InitKernel /\ [][NextKernel]_vars

\* The directories main is run on: every entry is a directory with a bin
\* directory, listed in name order.
MainKinds ==
    { k \in EntryKinds :
        k.bin = "dir" /\ k.listing \in { <<aarch64_gcc>>, <<arm_eabi_gcc_ar, arm_eabi_gcc>>,
                                       <<x86_gcc>>, <<aarch64_ld>> } }

MainDirs ==
    { d \in Dirs : /\ \A i \in DOMAIN d :
                        [isdir |-> d[i].isdir, bin |-> d[i].bin,
                         listing |-> d[i].listing] \in MainKinds
                   /\ sorted(d) = d }

\* main: gcc.scandir(TOOLCHAIN_DIR), without a target architecture.
Init ==
    /\ dir \in MainDirs
    /\ target_arch = "None"
    /\ InitRest

Next ==
    \/ ScanSort \/ ScanEntry \/ ScanReturn
    \/ CallBuild \/ MakeDefconfig
    \/ SelectFirst \/ SelectNext
    \/ Activate \/ ArchClean \/ BuildCall \/ MakeAll \/ WriteLog
    \/ CopyImage \/ MakeOtaPackage \/ ExitScope

Spec == Init /\ [][Next]_vars

(***************************************************************************)
(* Properties                                                              *)
(***************************************************************************)
IsCollaborator(e) == e.op \in {"defconfig", "archclean", "all", "package"}

Positions(op) == { p \in DOMAIN trace : trace[p].op = op }

\* The toolchains of the 'all' invocations, in order.
AllBuilt ==
    LET IsAll(e) == e.op = "all"
        alls == SelectSeq(trace, IsAll)
    IN  [i \in DOMAIN alls |-> alls[i].tc[1]]

\* C1: a failed collaborator invocation (defconfig, archclean, all,
\* packaging) is the last operation of the run: nothing is invoked after
\* it, for this toolchain or a later one, and the run has ended with the
\* collaborator's error.
C1_FatalShortCircuit ==
    \A p \in DOMAIN trace :
        IsCollaborator(trace[p]) /\ ~trace[p].ok =>
            /\ p = Len(trace)
            /\ pc = "aborted"
            /\ error = "CalledProcessError"

\* The 'all' build of the first of two chosen toolchains has failed.
C1_Witness ==
    /\ Len(chosen_numbers) >= 2
    /\ genIdx = 1
    /\ trace # <<>>
    /\ trace[Len(trace)].op = "all"
    /\ ~trace[Len(trace)].ok
    /\ pc = "aborted"

\* C2: when toolchain i+1 is activated, and so when its 'all' build starts,
\* the log of toolchain i has been written and, with an ota_package_dir,
\* the image of toolchain i has been copied and packaged.
C2_Serialized ==
    \A p \in DOMAIN trace :
        trace[p].op \in {"activate", "all"} /\ trace[p].it > 1 =>
            /\ \E q \in 1..(p - 1) :
                   trace[q].op = "log" /\ trace[q].it = trace[p].it - 1
            /\ \E f \in logs : f.by >= trace[p].it - 1
            /\ ota_package_dir =>
                 \A op \in {"copy", "package"} :
                     \E q \in 1..(p - 1) :
                         /\ trace[q].op = op
                         /\ trace[q].it = trace[p].it - 1
                         /\ trace[q].ok

\* The 'all' build of a second toolchain has started, with packaging.
C2_Witness ==
    /\ ota_package_dir
    /\ \E p \in Positions("all") : trace[p].it = 2

\* C3: once build has passed its first statement, defconfig has been
\* invoked exactly once, it is the first operation of the run, and every
\* other operation follows its success; this is so for any number of
\* toolchains.
C3_DefconfigOnceFirst ==
    /\ Cardinality(Positions("defconfig")) <= 1
    /\ genState # "none" /\ pc # "defconfig" =>
           Cardinality(Positions("defconfig")) = 1
    /\ trace # <<>> => trace[1].op = "defconfig"
    /\ Len(trace) > 1 => trace[1].ok

\* A run of two iterations has ended.
C3_Witness ==
    /\ pc = "done"
    /\ iteration = 2
    /\ Cardinality(Positions("defconfig")) = 1

\* C4: archclean and 'all' run for toolchain T in an environment whose
\* CROSS_COMPILE is T's compiler prefix and whose SUBARCH is the name of
\* T's target architecture.
C4_ActiveEnvironment ==
    \A p \in DOMAIN trace :
        trace[p].op \in {"archclean", "all"} =>
            /\ trace[p].env.CROSS_COMPILE = trace[p].tc[1].compiler_prefix
            /\ trace[p].env.SUBARCH = trace[p].tc[1].target_arch
            /\ trace[p].env.SUBARCH \in Archs

\* The 'all' build of a second toolchain whose architecture is not the
\* first one's.
C4_Witness ==
    \E p, q \in Positions("all") :
        /\ trace[p].it = 1
        /\ trace[q].it = 2
        /\ trace[p].tc[1].target_arch # trace[q].tc[1].target_arch

\* C5: when a run ends without a failure, the selector is exhausted and
\* the toolchains 'all' was invoked for are the ones it yielded, in the
\* same order, each as often as it was yielded.
C5_BuiltInSelectionOrder ==
    pc = "done" => genState = "finished" /\ AllBuilt = yielded

\* A run that built the same toolchain twice has ended.
C5_Witness ==
    /\ pc = "done"
    /\ Len(yielded) = 2
    /\ yielded[1] = yielded[2]
    /\ Len(AllBuilt) = 2

\* C6: from a list of zero or one toolchain, select produces exactly the
\* elements of the list, and does not prompt.
C6_ShortListReturned ==
    genState = "finished" /\ Len(toolchains) <= 1 =>
        yielded = toolchains /\ prompts = 0

\* C7: with two or more toolchains and a line of numbers each between 1
\* and the length of the list, the toolchains yielded so far are
\* toolchains[n - 1] (0-based) for the numbers consumed so far, in order;
\* the generator ends when all have been consumed; the line "2 1" is the
\* numbers 2, 1.
C7_SelectorMapping ==
    ( /\ genState \in {"suspended", "finished"}
      /\ Len(toolchains) >= 2
      /\ \A i \in DOMAIN chosen_numbers :
             chosen_numbers[i] \in 1..Len(toolchains) ) =>
        /\ yielded = [i \in 1..genIdx |-> toolchains[chosen_numbers[i]]]
        /\ genState = "finished" => genIdx = Len(chosen_numbers)
        /\ line = <<"2", " ", "1">> => chosen_numbers = <<2, 1>>

\* "2 1" on three toolchains has yielded the second, then the first.
C7_Witness ==
    /\ Len(toolchains) = 3
    /\ line = <<"2", " ", "1">>
    /\ genState = "finished"
    /\ yielded = <<toolchains[2], toolchains[1]>>

\* C8: with two or more toolchains, no toolchain is yielded for a number
\* outside 1..len(toolchains): every number consumed by a yield is in
\* that range.
C8_OutOfRangeIsFatal ==
    Len(toolchains) >= 2 =>
        \A i \in 1..genIdx : chosen_numbers[i] \in 1..Len(toolchains)

\* Whether the spec's Toolchain of an entry is valid, and the architecture
\* it resolves to.
IsValid(e) == nonzero(e)
ResolvedArch(e) ==
    LET found == IF e.bin = "dir" THEN first_gcc_prefix(e.name, e.listing)
                 ELSE None
    IN  IF found = None THEN "None" ELSE find_target_arch(found[1])

Wanted(e) ==
    IsValid(e) /\ (target_arch = "None" \/ ResolvedArch(e) = target_arch)

\* C9: scandir returns, and what it returns is, in name order, exactly the
\* entries that are valid and of the target architecture when one is given.
C9_DiscoverFilters ==
    pc \in {"select", "aborted"} =>
        /\ pc = "select"
        /\ LET IsWanted(e) == Wanted(e)
               wanted == SelectSeq(sorted(dir), IsWanted)
           IN  [i \in DOMAIN toolchains |-> toolchains[i].name]
                   = [i \in DOMAIN wanted |-> wanted[i].name]

\* C10: constructing a Toolchain never raises, so the scan ends no run and
\* reaches every entry of the directory.
C10_ConstructionNeverRaises ==
    /\ error = "none"
    /\ pc = "select" => scanIdx = Len(dir)

\* The nearest directory on the way from the start to '/' that holds every
\* name of KERNEL_DIRS, None when there is none.
NearestRoot ==
    LET start == StartOf(tree)
        roots == { k \in 0..Len(start) : KERNEL_DIRS \subseteq tree[k + 1] }
    IN  IF roots = {} THEN None
        ELSE Some(SubSeq(start, 1, CHOOSE k \in roots : \A m \in roots : m <= k))

C12_VersionComputedOnce ==
    /\ release_calls <= 1
    /\ \A i \in DOMAIN reads :
           reads[i].attr = "version" =>
               \/ reads[i].raised = "CalledProcessError"
               \/ /\ reads[i].raised = "none"
                  /\ release_calls = 1
                  /\ reads[i].value = parse_kernelrelease(make_status.output)

\* What the claim gives for release_version when 'set' is 'not None'.
ClaimedRelease(version, extra) ==
    IF extra # None THEN version \o <<"-">> \o extra[1] ELSE version

C20_WorkingDirectoryRestored ==
    /\ \A i \in DOMAIN cwd_log :
           /\ cwd_log[i].at_make \in {"none", KernelRoot}
           /\ cwd_log[i].after \in {"none", cwd_log[i].before}
    /\ pc \in {"idle", "aborted"} /\ cwd_log # <<>> =>
           /\ cwd_log[Len(cwd_log)].at_make = KernelRoot
           /\ cwd_log[Len(cwd_log)].after = cwd_log[Len(cwd_log)].before
           /\ cwd = cwd_log[Len(cwd_log)].before

\* A computation started outside the root has ended with make's failure.
C20_Witness ==
    /\ pc = "aborted"
    /\ cwd_log # <<>>
    /\ cwd_log[1].before = "home"
    /\ cwd_log[1].at_make = KernelRoot
    /\ ~cwd_log[1].ok
    /\ cwd = "home"

\* The last activation of the run so far, when it succeeded.
LastActivation ==
    { p \in Positions("activate") :
        trace[p].ok /\ \A q \in Positions("activate") : q <= p }

\* C14: from the activation of toolchain T until the next activation, and
\* so after T's scope has been left, normally or by an exception, and at
\* the end of the run, CROSS_COMPILE and SUBARCH are T's: they are what
\* the activation made them, not what they were before the run.
C14_ExitKeepsEnvironment ==
    \A p \in LastActivation :
        /\ environ.SUBARCH = trace[p].tc[1].target_arch
        /\ environ.SUBARCH # Unset
        /\ environ.CROSS_COMPILE = trace[p].tc[1].compiler_prefix
        /\ environ = trace[p].env

\* A run over two toolchains of different architectures has ended, both
\* scopes left.
C14_Witness ==
    /\ pc = "done"
    /\ Len(yielded) = 2
    /\ yielded[1].target_arch # yielded[2].target_arch
    /\ environ.SUBARCH = yielded[2].target_arch
    /\ LastActivation # {}

C16_SelectionBeforeBuild ==
    Len(toolchains) > 1 /\ trace # <<>> =>
        /\ prompts = 1
        /\ genState \in {"suspended", "finished", "raised"}

\* The positions of the operations op of iteration i.
InIteration(op, i) == { p \in Positions(op) : trace[p].it = i }

\* The iterations that have run to the end of their with block.
CompletedIterations ==
    { i \in 1..iteration : i < iteration \/ pc \in {"exit", "for", "done"} }

\* C17: in every iteration archclean is invoked once and no more, after
\* the activation of the iteration's toolchain; 'all' is invoked only
\* after the archclean of the same iteration has succeeded; the copy and
\* the packaging of an iteration come after its log has been written,
\* which comes after its 'all'; an iteration that has run to its end has
\* had one archclean and one 'all'.
C17_IterationOrder ==
    /\ \A i \in 1..iteration :
           /\ Cardinality(InIteration("archclean", i)) <= 1
           /\ \A c \in InIteration("archclean", i) :
                  \E a \in InIteration("activate", i) : a < c /\ trace[a].ok
           /\ \A b \in InIteration("all", i) :
                  \E c \in InIteration("archclean", i) : c < b /\ trace[c].ok
           /\ \A k \in InIteration("copy", i) \cup InIteration("package", i) :
                  \E l \in InIteration("log", i) :
                      /\ l < k
                      /\ \E b \in InIteration("all", i) : b < l /\ trace[b].ok
    /\ \A i \in CompletedIterations :
           /\ Cardinality(InIteration("archclean", i)) = 1
           /\ Cardinality(InIteration("all", i)) = 1
           /\ Cardinality(InIteration("log", i)) = 1

\* A run of two iterations, each with archclean, 'all', log, copy and
\* packaging, has ended.
C17_Witness ==
    /\ pc = "done"
    /\ CompletedIterations = {1, 2}
    /\ Cardinality(Positions("archclean")) = 2
    /\ Cardinality(Positions("package")) = 2

\* C18: packaging is invoked in an iteration exactly when an
\* ota_package_dir is given; it is invoked after the image has been
\* copied in the same iteration, with the name of the iteration's
\* toolchain as extra_version; without an ota_package_dir nothing is
\* copied and nothing is packaged.
C18_PackagingWhenConfigured ==
    /\ \A p \in Positions("package") :
           /\ ota_package_dir
           /\ trace[p].extra_version = trace[p].tc[1].name
           /\ \E k \in InIteration("copy", trace[p].it) : k < p /\ trace[k].ok
    /\ ~ota_package_dir => Positions("copy") = {} /\ Positions("package") = {}
    /\ ota_package_dir =>
           \A i \in CompletedIterations :
               /\ Cardinality(InIteration("copy", i)) = 1
               /\ Cardinality(InIteration("package", i)) = 1

\* Two toolchains have been packaged, each under its own name.
C18_Witness ==
    /\ ota_package_dir
    /\ \E p, q \in Positions("package") :
           /\ trace[p].it = 1
           /\ trace[q].it = 2
           /\ trace[p].ok
           /\ trace[p].extra_version # trace[q].extra_version

\* C19: in every state CROSS_COMPILE and SUBARCH describe one toolchain:
\* before any activation both are unset, and from the first activation
\* on, failed activations included, they are the compiler prefix and the
\* target architecture of one and the same toolchain.
C19_EnvironmentOfOneToolchain ==
    IF Positions("activate") = {}
    THEN environ.SUBARCH = Unset /\ environ.CROSS_COMPILE = Unset
    ELSE /\ environ.SUBARCH \in Archs
         /\ \E i \in DOMAIN toolchains :
                /\ toolchains[i].target_arch = environ.SUBARCH
                /\ toolchains[i].compiler_prefix = environ.CROSS_COMPILE

====
